---- MODULE Spec2Model ----
(***************************************************************************)
(* The receipt ledger of spaceproof_demo (ReceiptChain), in its two        *)
(* variants:                                                               *)
(*   "sync"  : the ledger of demo/ (src/unnamed/part_001 lines 255-534),   *)
(*             state `ledger`, receipts carry prev_hash;                   *)
(*   "async" : the ledger of the SpaceProofDemo page (part_001 lines       *)
(*             7-237), state `receipts` and `merkleRoots`, every operation *)
(*             that hashes suspends at an await.                           *)
(* A page loads exactly one of the two objects; `variant` says which.      *)
(*                                                                         *)
(* Strings are sequences of tokens.  A digest is the token sequence        *)
(* <<"H[">> \o str \o <<"]">>: the dual hash is a deterministic function   *)
(* of the serialized string and is taken to be free of collisions; what    *)
(* the serialization keeps, drops and orders is modelled as the code does  *)
(* it.                                                                     *)
(***************************************************************************)
EXTENDS Integers, Sequences, FiniteSets, TLC

\* ------------------------------------------------------------- bounds
MaxLen == 3
MaxClock == 1
MaxInflight == 2
MaxTamper == 2
MaxReset == 1
MaxRuns == 2

VARIABLES
    variant,      \* which ReceiptChain object the page loaded
    now,          \* the wall clock read by new Date()
    ledger,       \* sync: ReceiptChain.ledger
    receipts,     \* async: ReceiptChain.receipts
    merkleRoots,  \* async: ReceiptChain.merkleRoots
    inflight,     \* async: calls suspended at an await, in invocation order
    lastOp,       \* the operation that completed last
    ret,          \* what that operation returned
    resets,       \* how many times the ledger was reset or cleared
    tamper,       \* out-of-band changes made to stored receipts, in order
    DemoState,    \* the page's demo state (SpaceProofDemo's fields in part_000)
    runs          \* the runFullDemo() calls made so far, each with the act it is at

vars == <<variant, now, ledger, receipts, merkleRoots, inflight, lastOp, ret, resets, tamper,
          DemoState, runs>>

\* ------------------------------------------------------ JSON values
\* A value is a string, a number, an array of strings or an object; an
\* object keeps its properties in insertion order.
Str(s) == [t |-> "str", s |-> s, o |-> <<>>]
Num(s) == [t |-> "num", s |-> s, o |-> <<>>]
Arr(s) == [t |-> "arr", s |-> s, o |-> <<>>]
Obj(o) == [t |-> "obj", s |-> <<>>, o |-> o]
E(k, v) == [k |-> k, v |-> v]

\* Every property name of the model, in the order of Array.prototype.sort().
KeyOrder ==
    << "a", "anchor_timestamp", "b", "batch_size", "c", "component_id", "from",
       "hash_algorithms", "hash_algos", "merkle_root", "mode", "node_id",
       "payload", "payload_hash", "prev_hash", "receipt_type", "tenant_id",
       "to", "ts" >>

Quote == <<"\"">>

RECURSIVE JoinComma(_)
JoinComma(parts) ==
    IF parts = <<>> THEN <<>>
    ELSE IF Len(parts) = 1 THEN parts[1]
    ELSE parts[1] \o <<",">> \o JoinComma(Tail(parts))

\* JSON.stringify(data, null, 0): every property, in insertion order.
RECURSIVE stringify(_)
stringify(v) ==
    CASE v.t = "str" -> Quote \o v.s \o Quote
      [] v.t = "num" -> v.s
      [] v.t \in {"nan", "null"} -> <<"null">>
      [] v.t = "arr" -> <<"[">> \o v.s \o <<"]">>
      [] OTHER ->
            <<"{">>
            \o JoinComma([i \in 1..Len(v.o) |->
                            Quote \o <<v.o[i].k>> \o Quote \o <<":">> \o stringify(v.o[i].v)])
            \o <<"}">>

\* Object.keys(data).sort()
HasKey(o, k) == \E i \in 1..Len(o) : o[i].k = k
Get(o, k) == o[CHOOSE i \in 1..Len(o) : o[i].k = k].v
SortedKeys(o) == SelectSeq(KeyOrder, LAMBDA k : HasKey(o, k))

\* JSON.stringify(data, list): at every nesting level only the properties
\* named in `list` are written, in the order of `list`.
RECURSIVE stringifyList(_, _)
stringifyList(v, list) ==
    CASE v.t = "str" -> Quote \o v.s \o Quote
      [] v.t = "num" -> v.s
      [] v.t \in {"nan", "null"} -> <<"null">>
      [] v.t = "arr" -> <<"[">> \o v.s \o <<"]">>
      [] OTHER ->
            LET ks == SelectSeq(list, LAMBDA k : HasKey(v.o, k))
            IN  <<"{">>
                \o JoinComma([i \in 1..Len(ks) |->
                                Quote \o <<ks[i]>> \o Quote \o <<":">>
                                \o stringifyList(Get(v.o, ks[i]), list)])
                \o <<"}">>

\* The digest of a string: sha256Sim(str) ":" blake3Sim(str).
Digest(str) == <<"H[">> \o str \o <<"]">>

\* sync dualHash(data)
dualHash(data) ==
    Digest(IF data.t = "str" THEN data.s ELSE stringify(data))

\* async dualHash(data)
dualHashAsync(data) ==
    Digest(IF data.t = "str" THEN data.s ELSE stringifyList(data, SortedKeys(data.o)))

GENESIS == <<"GENESIS">>
TenantSync == <<"spaceproof_demo">>
TenantAsync == <<"spaceproof-demo">>
Iso(t) == <<"T", ToString(t)>>

\* ------------------------------------------------------- the inputs
\* Two payloads with the same content, their properties inserted in a
\* different order, one property holding a nested object.
P_ab == Obj(<<E("a", Obj(<<E("c", Num(<<"1">>))>>)), E("b", Num(<<"2">>))>>)
P_ba == Obj(<<E("b", Num(<<"2">>)), E("a", Obj(<<E("c", Num(<<"1">>))>>))>>)

\* The receipt type is any string the caller passes; "constructor" is also
\* the name of a property every plain object inherits.
Inputs ==
    { [type |-> <<"verification">>, data |-> P_ab],
      [type |-> <<"mode_switch">>, data |-> P_ba],
      [type |-> <<"constructor">>, data |-> P_ab] }

NoRet == [kind |-> "none"]

\* ------------------------------------------------- the sync ledger
\* A receipt linked to the first receipt of the ledger instead of the last.
NewReceipt_linkFirst(l, receiptType, payload, t) ==
    [ receipt_type |-> receiptType,
      ts |-> Iso(t),
      tenant_id |-> TenantSync,
      payload |-> payload,
      payload_hash |-> dualHash(payload),
      prev_hash |-> IF Len(l) > 0 THEN l[1].payload_hash ELSE GENESIS ]

\* emitReceipt(receiptType, payload): the receipt it builds
NewReceipt(l, receiptType, payload, t) ==
    [ receipt_type |-> receiptType,
      ts |-> Iso(t),
      tenant_id |-> TenantSync,
      payload |-> payload,
      payload_hash |-> dualHash(payload),
      prev_hash |-> IF Len(l) > 0 THEN l[Len(l)].payload_hash ELSE GENESIS ]

\* unshift instead of push
Push_front(l, receipt) == <<receipt>> \o l

\* this.ledger.push(receipt)
Push(l, receipt) == Append(l, receipt)

\* this.dualHash(hashes[i] + hashes[i + 1])
hashChain(left, right) == dualHash(Str(left \o right))

\* computeMerkleRoot(): the fold of one level
RECURSIVE PairUp(_)
PairUp(hashes) ==
    IF hashes = <<>> THEN <<>>
    ELSE <<hashChain(hashes[1], hashes[2])>> \o PairUp(SubSeq(hashes, 3, Len(hashes)))

\* The fold with the odd-count padding applied before the length test, so that
\* a single hash is paired with itself.
RECURSIVE FoldLevels_padFirst(_)
FoldLevels_padFirst(hashes) ==
    LET even == IF Len(hashes) % 2 # 0
                THEN Append(hashes, hashes[Len(hashes)]) ELSE hashes
        next == PairUp(even)
    IN  IF Len(next) = 1 THEN next[1] ELSE FoldLevels_padFirst(next)

RECURSIVE FoldLevels(_)
FoldLevels(hashes) ==
    IF Len(hashes) <= 1 THEN hashes[1]
    ELSE LET even == IF Len(hashes) % 2 # 0
                     THEN Append(hashes, hashes[Len(hashes)]) ELSE hashes
         IN  FoldLevels(PairUp(even))

\* computeMerkleRoot() hashing the empty ledger itself instead of 'empty'
computeMerkleRoot_hashesLedger(l) ==
    IF Len(l) = 0 THEN dualHash(Arr(<<>>))
    ELSE FoldLevels([i \in 1..Len(l) |-> l[i].payload_hash])

\* computeMerkleRoot()
computeMerkleRoot(l) ==
    IF Len(l) = 0 THEN dualHash(Str(<<"empty">>))
    ELSE FoldLevels([i \in 1..Len(l) |-> l[i].payload_hash])

\* emitReceipt(receiptType, payload)
EmitReceipt ==
    /\ variant = "sync"
    /\ Len(ledger) < MaxLen
    /\ \E in \in Inputs :
          LET receipt == NewReceipt(ledger, in.type, in.data, now)
          IN  /\ ledger' = Push(ledger, receipt)
              /\ lastOp' = "emitReceipt"
              /\ ret' = receipt
    /\ UNCHANGED <<variant, DemoState, runs, now, receipts, merkleRoots, inflight, resets, tamper>>

BATCH_ANCHOR == <<"batch_anchor_receipt">>
HashAlgos == <<"\"SHA256\"", ",", "\"BLAKE3\"">>

\* An anchor payload that always carries the root of the empty batch.
AnchorPayload_emptyRoot(l, t) ==
    Obj(<< E("merkle_root", Str(dualHash(Str(<<"empty">>)))),
           E("batch_size", Num(<<ToString(Len(l))>>)),
           E("hash_algorithms", Arr(HashAlgos)),
           E("anchor_timestamp", Str(Iso(t))) >>)

\* anchorBatch(): the payload it hands to emitReceipt
AnchorPayload(l, t) ==
    Obj(<< E("merkle_root", Str(computeMerkleRoot(l))),
           E("batch_size", Num(<<ToString(Len(l))>>)),
           E("hash_algorithms", Arr(HashAlgos)),
           E("anchor_timestamp", Str(Iso(t))) >>)

AnchorBatch ==
    /\ variant = "sync"
    /\ Len(ledger) < MaxLen
    /\ LET receipt == NewReceipt(ledger, BATCH_ANCHOR, AnchorPayload(ledger, now), now)
       IN  /\ ledger' = Push(ledger, receipt)
           /\ lastOp' = "anchorBatch"
           /\ ret' = receipt
    /\ UNCHANGED <<variant, DemoState, runs, now, receipts, merkleRoots, inflight, resets, tamper>>

\* verifyChain(): i is the index of the code (the first receipt has index 0)
Breaks(l) == {i \in 1..(Len(l) - 1) : l[i + 1].prev_hash # l[i].payload_hash}

\* verifyChain() that never reports a break
verifyChain_alwaysValid(l) ==
    [ valid |-> TRUE,
      length |-> Len(l),
      merkle_root |-> computeMerkleRoot(l) ]

\* verifyChain() walking from the end and reporting the last break
verifyChain_lastBreak(l) ==
    IF Breaks(l) # {}
    THEN LET i == CHOOSE j \in Breaks(l) : \A k \in Breaks(l) : j >= k
         IN  [ valid |-> FALSE,
               index |-> i,
               expected |-> l[i].payload_hash,
               found |-> l[i + 1].prev_hash ]
    ELSE [ valid |-> TRUE,
           length |-> Len(l),
           merkle_root |-> computeMerkleRoot(l) ]

verifyChain(l) ==
    IF Breaks(l) # {}
    THEN LET i == CHOOSE j \in Breaks(l) : \A k \in Breaks(l) : j <= k
         IN  [ valid |-> FALSE,
               index |-> i,
               expected |-> l[i].payload_hash,
               found |-> l[i + 1].prev_hash ]
    ELSE [ valid |-> TRUE,
           length |-> Len(l),
           merkle_root |-> computeMerkleRoot(l) ]

\* A property value of byType: a number, or the string that + yields once
\* its left operand is not a number.
CountVal(n) == [t |-> "num", n |-> n, s |-> <<>>]
TextVal(s) == [t |-> "str", n |-> 0, s |-> s]

\* const byType = {}: the function-valued properties byType inherits from
\* Object.prototype, and what String() makes of them.
InheritedNames ==
    { <<"constructor">>, <<"toString">>, <<"toLocaleString">>, <<"valueOf">>,
      <<"hasOwnProperty">>, <<"isPrototypeOf">>, <<"propertyIsEnumerable">> }

Inherited(k) ==
    IF k = <<"constructor">> THEN <<"function Object() { [native code] }">>
    ELSE <<"function ">> \o k \o <<"() { [native code] }">>

\* (byType[k] || 0) + 1
Bump(byType, k) ==
    IF k \in DOMAIN byType
    THEN IF byType[k].t = "num" THEN CountVal(byType[k].n + 1)
         ELSE TextVal(byType[k].s \o <<"1">>)
    ELSE IF k \in InheritedNames THEN TextVal(Inherited(k) \o <<"1">>)
    ELSE CountVal(1)

\* for (const receipt of this.ledger) byType[receipt.receipt_type] = ...
RECURSIVE ByType(_)
ByType(l) ==
    IF l = <<>> THEN [k \in {} |-> CountVal(0)]
    ELSE LET prev == ByType(SubSeq(l, 1, Len(l) - 1))
             k == l[Len(l)].receipt_type
         IN  [x \in DOMAIN prev \cup {k} |-> IF x = k THEN Bump(prev, k) ELSE prev[x]]

\* getStats()
getStats(l) ==
    [ total_receipts |-> Len(l),
      by_type |-> ByType(l),
      merkle_root |-> computeMerkleRoot(l),
      chain_valid |-> verifyChain(l).valid ]

\* JSON.stringify(r) reads the receipt's properties in the order emitReceipt
\* created them.
ReceiptValue(r) ==
    Obj(<< E("receipt_type", Str(r.receipt_type)),
           E("ts", Str(r.ts)),
           E("tenant_id", Str(r.tenant_id)),
           E("payload", r.payload),
           E("payload_hash", Str(r.payload_hash)),
           E("prev_hash", Str(r.prev_hash)) >>)

RECURSIVE JoinLines(_)
JoinLines(lines) ==
    IF lines = <<>> THEN <<>>
    ELSE IF Len(lines) = 1 THEN lines[1]
    ELSE lines[1] \o <<"\n">> \o JoinLines(Tail(lines))

\* exportLedger()
exportLedger(l) == JoinLines([i \in 1..Len(l) |-> stringify(ReceiptValue(l[i]))])

VerifyChain ==
    /\ variant = "sync"
    /\ lastOp' = "verifyChain"
    /\ ret' = verifyChain(ledger)
    /\ UNCHANGED <<variant, DemoState, runs, now, ledger, receipts, merkleRoots, inflight, resets, tamper>>

GetStats ==
    /\ variant = "sync"
    /\ lastOp' = "getStats"
    /\ ret' = getStats(ledger)
    /\ UNCHANGED <<variant, DemoState, runs, now, ledger, receipts, merkleRoots, inflight, resets, tamper>>

\* computeMerkleRoot() folding this.ledger itself instead of a copy
ComputeMerkleRoot_aliased ==
    /\ variant = "sync"
    /\ lastOp' = "computeMerkleRoot"
    /\ ret' = [root |-> computeMerkleRoot(ledger)]
    /\ ledger' = SubSeq(ledger, 1, (Len(ledger) + 1) \div 2)
    /\ UNCHANGED <<variant, DemoState, runs, now, receipts, merkleRoots, inflight, resets, tamper>>

ComputeMerkleRoot ==
    /\ variant = "sync"
    /\ lastOp' = "computeMerkleRoot"
    /\ ret' = [root |-> computeMerkleRoot(ledger)]
    /\ UNCHANGED <<variant, DemoState, runs, now, ledger, receipts, merkleRoots, inflight, resets, tamper>>

ExportLedger ==
    /\ variant = "sync"
    /\ lastOp' = "exportLedger"
    /\ ret' = [jsonl |-> exportLedger(ledger)]
    /\ UNCHANGED <<variant, DemoState, runs, now, ledger, receipts, merkleRoots, inflight, resets, tamper>>

\* reset() truncating the ledger to its first receipt
Reset_keepsFirst ==
    /\ variant = "sync"
    /\ resets < MaxReset
    /\ ledger' = IF ledger = <<>> THEN <<>> ELSE <<ledger[1]>>
    /\ lastOp' = "reset"
    /\ ret' = NoRet
    /\ resets' = resets + 1
    /\ UNCHANGED <<variant, DemoState, runs, now, receipts, merkleRoots, inflight, tamper>>

\* reset()
Reset ==
    /\ variant = "sync"
    /\ resets < MaxReset
    /\ ledger' = <<>>
    /\ lastOp' = "reset"
    /\ ret' = NoRet
    /\ resets' = resets + 1
    /\ UNCHANGED <<variant, DemoState, runs, now, receipts, merkleRoots, inflight, tamper>>

\* ------------------------------------------------ the async ledger
\* JSON.stringify(r) / Object.keys(r) of an async receipt: no prev_hash.
ReceiptValueAsync(r) ==
    Obj(<< E("receipt_type", Str(r.receipt_type)),
           E("ts", Str(r.ts)),
           E("tenant_id", Str(r.tenant_id)),
           E("payload", r.payload),
           E("payload_hash", Str(r.payload_hash)) >>)

\* emitReceipt(receiptType, data) after its await: the receipt it builds
NewReceiptAsync(receiptType, payload, t) ==
    [ receipt_type |-> receiptType,
      ts |-> Iso(t),
      tenant_id |-> TenantAsync,
      payload |-> payload,
      payload_hash |-> dualHashAsync(payload) ]

\* this.dualHash(hashes[i] + hashes[i + 1])
hashChainAsync(left, right) == dualHashAsync(Str(left \o right))

RECURSIVE PairUpAsync(_)
PairUpAsync(hashes) ==
    IF hashes = <<>> THEN <<>>
    ELSE <<hashChainAsync(hashes[1], hashes[2])>>
         \o PairUpAsync(SubSeq(hashes, 3, Len(hashes)))

RECURSIVE FoldLevelsAsync(_)
FoldLevelsAsync(hashes) ==
    IF Len(hashes) <= 1 THEN hashes[1]
    ELSE LET even == IF Len(hashes) % 2 = 1
                     THEN Append(hashes, hashes[Len(hashes)]) ELSE hashes
         IN  FoldLevelsAsync(PairUpAsync(even))

\* computeMerkleRoot(items = null): the leaves are serialized when it is called
computeMerkleRootAsync(rs) ==
    IF Len(rs) = 0 THEN dualHashAsync(Str(<<"empty">>))
    ELSE FoldLevelsAsync([i \in 1..Len(rs) |-> dualHashAsync(ReceiptValueAsync(rs[i]))])

\* verifyChain()
Mismatches(rs) == {i \in 1..Len(rs) : dualHashAsync(rs[i].payload) # rs[i].payload_hash}

verifyChainAsync(rs) ==
    IF Len(rs) = 0 THEN [valid |-> TRUE, message |-> "Empty chain"]
    ELSE IF Mismatches(rs) # {}
    THEN LET i == CHOOSE j \in Mismatches(rs) : \A k \in Mismatches(rs) : j <= k
         IN  [ valid |-> FALSE,
               message |-> <<"Hash mismatch at receipt">> \o rs[i].ts,
               receipt |-> rs[i] ]
    ELSE [ valid |-> TRUE,
           message |-> "Chain integrity verified",
           receipt_count |-> Len(rs),
           merkle_root |-> computeMerkleRootAsync(rs) ]

\* getChainStats()
getChainStats(rs, roots) ==
    [ total_receipts |-> Len(rs),
      by_type |-> ByType(rs),
      anchor_count |-> Len(roots),
      last_receipt |-> IF Len(rs) > 0 THEN rs[Len(rs)].ts ELSE <<"null">> ]

\* JSON.stringify(r) reaches a value that contains itself
RECURSIVE Cyclic(_)
Cyclic(v) ==
    \/ v.t = "cyc"
    \/ v.t = "obj" /\ \E i \in 1..Len(v.o) : Cyclic(v.o[i].v)

\* exportJSONL()
exportJSONL(rs) == JoinLines([i \in 1..Len(rs) |-> stringify(ReceiptValueAsync(rs[i]))])

ANCHOR == <<"anchor">>
HashAlgosAsync == <<"\"SHA256\"", ",", "\"BLAKE3\"">>

RemoveAt(q, i) == SubSeq(q, 1, i - 1) \o SubSeq(q, i + 1, Len(q))

\* anchorReceipts(): the payload it hands to emitReceipt
AnchorPayloadAsync(root, n) ==
    Obj(<< E("merkle_root", Str(root)),
           E("hash_algos", Arr(HashAlgosAsync)),
           E("batch_size", Num(<<ToString(n)>>)) >>)

\* ---- the async operations, each awaited before the next call is made
\* emitReceipt(receiptType, data)
EmitReceiptAsync ==
    /\ variant = "async"
    /\ inflight = <<>>
    /\ Len(receipts) < MaxLen
    /\ \E in \in Inputs :
          LET receipt == NewReceiptAsync(in.type, in.data, now)
          IN  /\ receipts' = Append(receipts, receipt)
              /\ lastOp' = "emitReceipt"
              /\ ret' = receipt
    /\ UNCHANGED <<variant, DemoState, runs, now, ledger, merkleRoots, inflight, resets, tamper>>

\* anchorReceipts()
AnchorReceipts ==
    /\ variant = "async"
    /\ inflight = <<>>
    /\ Len(receipts) < MaxLen
    /\ LET root == computeMerkleRootAsync(receipts)
           receipt == NewReceiptAsync(ANCHOR, AnchorPayloadAsync(root, Len(receipts)), now)
       IN  /\ merkleRoots' = Append(merkleRoots,
                  [root |-> root, batch_size |-> Len(receipts), ts |-> Iso(now)])
           /\ receipts' = Append(receipts, receipt)
           /\ lastOp' = "anchorReceipts"
           /\ ret' = receipt
    /\ UNCHANGED <<variant, DemoState, runs, now, ledger, inflight, resets, tamper>>

\* ---- the async operations step by step: a call runs to its first await
\* and resumes later, other calls running in between
\* emitReceipt(receiptType, data) up to `await this.dualHash(payload)`;
\* epoch is the number of clear() calls made before this call started
EmitReceiptCall ==
    /\ variant = "async"
    /\ Len(inflight) < MaxInflight
    /\ Len(receipts) + Len(inflight) < MaxLen
    /\ \E in \in Inputs :
          inflight' = Append(inflight,
              [ op |-> "emitReceipt", type |-> in.type, payload |-> in.data,
                epoch |-> resets ])
    /\ UNCHANGED <<variant, DemoState, runs, now, ledger, receipts, merkleRoots, lastOp, ret, resets, tamper>>

\* emitReceipt from the await on, with unshift in place of push
EmitReceiptResume_unshift ==
    /\ variant = "async"
    /\ \E i \in 1..Len(inflight) :
          /\ inflight[i].op \in {"emitReceipt", "anchorEmit"}
          /\ LET receipt == NewReceiptAsync(inflight[i].type, inflight[i].payload, now)
             IN  /\ receipts' = <<receipt>> \o receipts
                 /\ lastOp' = IF inflight[i].op = "anchorEmit"
                              THEN "anchorReceipts" ELSE "emitReceipt"
                 /\ ret' = receipt
          /\ inflight' = RemoveAt(inflight, i)
    /\ UNCHANGED <<variant, DemoState, runs, now, ledger, merkleRoots, resets, tamper>>

\* emitReceipt from the await on: any suspended call may be the next to resume
EmitReceiptResume ==
    /\ variant = "async"
    /\ \E i \in 1..Len(inflight) :
          /\ inflight[i].op \in {"emitReceipt", "anchorEmit"}
          /\ LET receipt == NewReceiptAsync(inflight[i].type, inflight[i].payload, now)
             IN  /\ receipts' = Append(receipts, receipt)
                 /\ lastOp' = IF inflight[i].op = "anchorEmit"
                              THEN "anchorReceipts" ELSE "emitReceipt"
                 /\ ret' = receipt
          /\ inflight' = RemoveAt(inflight, i)
    /\ UNCHANGED <<variant, DemoState, runs, now, ledger, merkleRoots, resets, tamper>>

\* anchorReceipts() up to `await this.computeMerkleRoot()`
AnchorReceiptsCall ==
    /\ variant = "async"
    /\ Len(inflight) < MaxInflight
    /\ Len(receipts) + Len(inflight) < MaxLen
    /\ inflight' = Append(inflight,
           [ op |-> "anchorReceipts", root |-> computeMerkleRootAsync(receipts),
             epoch |-> resets ])
    /\ UNCHANGED <<variant, DemoState, runs, now, ledger, receipts, merkleRoots, lastOp, ret, resets, tamper>>

\* anchorReceipts() from the root on, up to the await inside its emitReceipt
AnchorReceiptsResume ==
    /\ variant = "async"
    /\ \E i \in 1..Len(inflight) :
          /\ inflight[i].op = "anchorReceipts"
          /\ merkleRoots' = Append(merkleRoots,
                 [ root |-> inflight[i].root,
                   batch_size |-> Len(receipts),
                   ts |-> Iso(now) ])
          /\ inflight' = [inflight EXCEPT ![i] =
                 [ op |-> "anchorEmit",
                   type |-> ANCHOR,
                   payload |-> AnchorPayloadAsync(inflight[i].root, Len(receipts)),
                   epoch |-> inflight[i].epoch ]]
    /\ UNCHANGED <<variant, DemoState, runs, now, ledger, receipts, lastOp, ret, resets, tamper>>

VerifyChainAsync ==
    /\ variant = "async"
    /\ lastOp' = "verifyChain"
    /\ ret' = verifyChainAsync(receipts)
    /\ UNCHANGED <<variant, DemoState, runs, now, ledger, receipts, merkleRoots, inflight, resets, tamper>>

ComputeMerkleRootAsync ==
    /\ variant = "async"
    /\ lastOp' = "computeMerkleRoot"
    /\ ret' = [root |-> computeMerkleRootAsync(receipts)]
    /\ UNCHANGED <<variant, DemoState, runs, now, ledger, receipts, merkleRoots, inflight, resets, tamper>>

\* getChainStats() counting the anchors by draining this.merkleRoots
GetChainStats_drainsAnchors ==
    /\ variant = "async"
    /\ lastOp' = "getStats"
    /\ ret' = getChainStats(receipts, merkleRoots)
    /\ merkleRoots' = <<>>
    /\ UNCHANGED <<variant, DemoState, runs, now, ledger, receipts, inflight, resets, tamper>>

GetChainStats ==
    /\ variant = "async"
    /\ lastOp' = "getStats"
    /\ ret' = getChainStats(receipts, merkleRoots)
    /\ UNCHANGED <<variant, DemoState, runs, now, ledger, receipts, merkleRoots, inflight, resets, tamper>>

ExportJSONL ==
    /\ variant = "async"
    /\ \A i \in 1..Len(receipts) : ~Cyclic(receipts[i].payload)
    /\ lastOp' = "exportLedger"
    /\ ret' = [jsonl |-> exportJSONL(receipts)]
    /\ UNCHANGED <<variant, DemoState, runs, now, ledger, receipts, merkleRoots, inflight, resets, tamper>>

\* clear()
Clear ==
    /\ variant = "async"
    /\ resets < MaxReset
    /\ receipts' = <<>>
    /\ merkleRoots' = <<>>
    /\ lastOp' = "reset"
    /\ ret' = NoRet
    /\ resets' = resets + 1
    /\ UNCHANGED <<variant, DemoState, runs, now, ledger, inflight, tamper>>

\* ------------------------------------------------------- the clock
Tick ==
    /\ now < MaxClock
    /\ now' = now + 1
    /\ UNCHANGED <<variant, DemoState, runs, ledger, receipts, merkleRoots, inflight, lastOp, ret, resets, tamper>>

\* ------------------------------------------- out-of-band tampering
\* Somebody with access to the page changes one field of a stored receipt.
Forged == Digest(<<"forged">>)

\* Every value that differs from v in exactly one leaf, at any depth.
RECURSIVE Altered(_)
Altered(v) ==
    IF v.t # "obj" THEN {[v EXCEPT !.s = <<"9">>]}
    ELSE UNION { { Obj([v.o EXCEPT ![i] = E(v.o[i].k, w)]) : w \in Altered(v.o[i].v) }
                 : i \in 1..Len(v.o) }

Stored == IF variant = "sync" THEN ledger ELSE receipts

TamperWith(l) ==
    /\ IF variant = "sync"
       THEN ledger' = l /\ UNCHANGED receipts
       ELSE receipts' = l /\ UNCHANGED ledger
    /\ lastOp' = "tamper"
    /\ ret' = NoRet
    /\ UNCHANGED <<variant, DemoState, runs, now, merkleRoots, inflight, resets>>

TamperPayloadHash ==
    /\ Len(tamper) < MaxTamper
    /\ \E i \in 1..Len(Stored) :
          /\ TamperWith([Stored EXCEPT ![i].payload_hash = Forged])
          /\ tamper' = Append(tamper, [index |-> i, field |-> "payload_hash"])

TamperPrevHash ==
    /\ Len(tamper) < MaxTamper
    /\ variant = "sync"
    /\ \E i \in 1..Len(ledger) :
          /\ TamperWith([ledger EXCEPT ![i].prev_hash = Forged])
          /\ tamper' = Append(tamper, [index |-> i, field |-> "prev_hash"])

TamperPayload ==
    /\ Len(tamper) < MaxTamper
    /\ \E i \in 1..Len(Stored) :
          \E p \in Altered(Stored[i].payload) :
             /\ TamperWith([Stored EXCEPT ![i].payload = p])
             /\ tamper' = Append(tamper, [index |-> i, field |-> "payload"])

\* ------------------------------------- the caller keeps its object
\* The sync emitReceipt stores the caller's object itself (payload: payload);
\* the async one stores { ...data }, a copy of the top-level properties that
\* shares every nested object with the caller's. p is the stored payload v
\* with one leaf changed: the change is in an object the ledger shares with
\* the caller.
SharedWithCaller(v, p) ==
    \/ variant = "sync"
    \/ \E j \in 1..Len(v.o) : v.o[j].v.t = "obj" /\ p.o[j].v # v.o[j].v

\* After emitReceipt(type, p) returned, the caller assigns to a property of
\* p or of an object nested in p. Anchor payloads are built inside
\* anchorBatch / anchorReceipts and are not the caller's.
MutateCallerObject ==
    /\ \E i \in 1..Len(Stored) :
          /\ Stored[i].receipt_type \notin {BATCH_ANCHOR, ANCHOR}
          /\ \E p \in Altered(Stored[i].payload) :
                IF SharedWithCaller(Stored[i].payload, p)
                THEN IF variant = "sync"
                     THEN ledger' = [ledger EXCEPT ![i].payload = p] /\ UNCHANGED receipts
                     ELSE receipts' = [receipts EXCEPT ![i].payload = p] /\ UNCHANGED ledger
                ELSE UNCHANGED <<ledger, receipts>>
    /\ lastOp' = "mutate"
    /\ ret' = NoRet
    /\ UNCHANGED <<variant, DemoState, runs, now, merkleRoots, inflight, resets, tamper>>

\* ------------------------------------------------- hashing failures
\* A property whose value is the object that holds it: JSON.stringify throws
\* a TypeError when it reaches one.
Cyc == [t |-> "cyc", s |-> <<>>, o |-> <<>>]

P_cyc == Obj(<<E("a", Cyc)>>)

\* The same one level down, under a property name the payload does not have
\* at its top level.
P_deepcyc == Obj(<<E("a", Obj(<<E("c", Cyc)>>))>>)

\* NaN, Infinity or -Infinity: JSON.stringify writes null for each of them.
NonFinite == [t |-> "nan", s |-> <<"NaN">>, o |-> <<>>]

P_nan == Obj(<<E("a", NonFinite)>>)

FailInputs ==
    { [type |-> <<"verification">>, data |-> P_cyc],
      [type |-> <<"verification">>, data |-> P_deepcyc],
      [type |-> <<"verification">>, data |-> P_nan] }

\* JSON.stringify(data, null, 0) throws
RECURSIVE Throws(_)
Throws(v) ==
    \/ v.t = "cyc"
    \/ v.t = "obj" /\ \E i \in 1..Len(v.o) : Throws(v.o[i].v)

\* JSON.stringify(data, list) throws: only listed properties are visited
RECURSIVE ThrowsList(_, _)
ThrowsList(v, list) ==
    \/ v.t = "cyc"
    \/ v.t = "obj" /\ \E i \in 1..Len(v.o) :
           /\ \E j \in 1..Len(list) : list[j] = v.o[i].k
           /\ ThrowsList(v.o[i].v, list)

\* sync emitReceipt(receiptType, payload): this.dualHash(payload) throws while
\* the receipt literal is being built
EmitReceiptThrows ==
    /\ variant = "sync"
    /\ \E in \in FailInputs : Throws(in.data)
    /\ lastOp' = "emitReceipt"
    /\ ret' = [error |-> "TypeError"]
    /\ UNCHANGED <<variant, DemoState, runs, now, ledger, receipts, merkleRoots, inflight, resets, tamper>>

\* sync emitReceipt(receiptType, payload) with such a payload when
\* JSON.stringify does not throw
EmitReceiptLossy ==
    /\ variant = "sync"
    /\ Len(ledger) < MaxLen
    /\ \E in \in FailInputs :
          /\ ~Throws(in.data)
          /\ LET receipt == NewReceipt(ledger, in.type, in.data, now)
             IN  /\ ledger' = Push(ledger, receipt)
                 /\ lastOp' = "emitReceipt"
                 /\ ret' = receipt
    /\ UNCHANGED <<variant, DemoState, runs, now, receipts, merkleRoots, inflight, resets, tamper>>

\* async emitReceipt(receiptType, data) with such a payload when
\* JSON.stringify does not throw
EmitReceiptAsyncLossy ==
    /\ variant = "async"
    /\ inflight = <<>>
    /\ Len(receipts) < MaxLen
    /\ \E in \in FailInputs :
          /\ ~ThrowsList(in.data, SortedKeys(in.data.o))
          /\ LET receipt == NewReceiptAsync(in.type, in.data, now)
             IN  /\ receipts' = Append(receipts, receipt)
                 /\ lastOp' = "emitReceipt"
                 /\ ret' = receipt
    /\ UNCHANGED <<variant, DemoState, runs, now, ledger, merkleRoots, inflight, resets, tamper>>

\* exportJSONL() when a stored payload contains itself: JSON.stringify(r),
\* which has no property list, throws
ExportJSONLThrows ==
    /\ variant = "async"
    /\ \E i \in 1..Len(receipts) : Cyclic(receipts[i].payload)
    /\ lastOp' = "exportLedger"
    /\ ret' = [error |-> "TypeError"]
    /\ UNCHANGED <<variant, DemoState, runs, now, ledger, receipts, merkleRoots, inflight, resets, tamper>>

\* async emitReceipt(receiptType, data): `await this.dualHash(payload)` rejects,
\* JSON.stringify having thrown or crypto.subtle.digest having rejected
EmitReceiptAsyncRejects ==
    /\ variant = "async"
    /\ inflight = <<>>
    /\ \/ /\ \E in \in FailInputs : ThrowsList(in.data, SortedKeys(in.data.o))
          /\ ret' = [error |-> "TypeError"]
       \/ ret' = [error |-> "OperationError"]
    /\ lastOp' = "emitReceipt"
    /\ UNCHANGED <<variant, DemoState, runs, now, ledger, receipts, merkleRoots, inflight, resets, tamper>>

\* async anchorReceipts(): crypto.subtle.digest rejects, either inside
\* `await this.computeMerkleRoot()` or, after merkleRoots.push, inside the
\* emitReceipt that hashes the anchor payload
AnchorReceiptsRejects ==
    /\ variant = "async"
    /\ inflight = <<>>
    /\ Len(merkleRoots) < MaxLen
    /\ \/ UNCHANGED merkleRoots
       \/ merkleRoots' = Append(merkleRoots,
              [ root |-> computeMerkleRootAsync(receipts),
                batch_size |-> Len(receipts),
                ts |-> Iso(now) ])
    /\ lastOp' = "anchorReceipts"
    /\ ret' = [error |-> "OperationError"]
    /\ UNCHANGED <<variant, DemoState, runs, now, ledger, receipts, inflight, resets, tamper>>

\* DemoState as the page declares it (demo.js), with the two counters that
\* SpaceProofDemo has in part_000; a field that holds an object or null is
\* TRUE when it holds an object.
Armed ==
    [ mode |-> "terrestrial",
      currentComponent |-> FALSE,
      isRunning |-> FALSE,
      terrestrialResult |-> FALSE,
      orbitalResult |-> FALSE,
      demoPhase |-> "idle",
      threatCount |-> 0,
      verifiedCount |-> 0 ]

Init ==
    /\ variant \in {"sync", "async"}
    /\ now = 0
    /\ ledger = <<>>
    /\ receipts = <<>>
    /\ merkleRoots = <<>>
    /\ inflight = <<>>
    /\ lastOp = "init"
    /\ ret = NoRet
    /\ resets = 0
    /\ tamper = <<>>
    /\ DemoState = Armed
    /\ runs = <<>>

Next ==
    \/ EmitReceipt
    \/ AnchorBatch
    \/ VerifyChain
    \/ GetStats
    \/ ComputeMerkleRoot
    \/ ExportLedger
    \/ Reset
    \/ EmitReceiptAsync
    \/ AnchorReceipts
    \/ VerifyChainAsync
    \/ ComputeMerkleRootAsync
    \/ GetChainStats
    \/ ExportJSONL
    \/ Clear
    \/ Tick

Spec == Init /\ [][Next]_vars

\* The async ledger with calls that overlap: the command handlers are not
\* awaited, so an append or an anchor may be invoked while earlier ones are
\* suspended, and verifyChain / getChainStats run in between.
NextAsync ==
    \/ EmitReceiptCall
    \/ EmitReceiptResume
    \/ AnchorReceiptsCall
    \/ AnchorReceiptsResume
    \/ VerifyChainAsync
    \/ GetChainStats
    \/ Tick

\* The page that loaded the async ReceiptChain.
InitAsync == Init /\ variant = "async"

SpecAsync == InitAsync /\ [][NextAsync]_vars

\* clear() is synchronous and is called by runFullDemo and by the reset
\* command while appends and anchors of unawaited handlers are suspended.
NextClear ==
    \/ EmitReceiptCall
    \/ EmitReceiptResume
    \/ AnchorReceiptsCall
    \/ AnchorReceiptsResume
    \/ Clear

SpecClear == InitAsync /\ [][NextClear]_vars

\* Appends and anchors only, of both variants, overlapping where the variant
\* allows it, with the clock running.
NextAppend ==
    \/ EmitReceipt
    \/ AnchorBatch
    \/ EmitReceiptCall
    \/ EmitReceiptResume
    \/ AnchorReceiptsCall
    \/ AnchorReceiptsResume
    \/ Tick

SpecAppend == Init /\ [][NextAppend]_vars

\* The ledger with out-of-band tampering, the clock held.
NextTamper ==
    \/ EmitReceipt
    \/ AnchorBatch
    \/ VerifyChain
    \/ GetStats
    \/ ComputeMerkleRoot
    \/ ExportLedger
    \/ Reset
    \/ EmitReceiptAsync
    \/ AnchorReceipts
    \/ VerifyChainAsync
    \/ ComputeMerkleRootAsync
    \/ GetChainStats
    \/ ExportJSONL
    \/ Clear
    \/ TamperPayloadHash
    \/ TamperPrevHash
    \/ TamperPayload

SpecTamper == Init /\ [][NextTamper]_vars

\* The ledger with hashing that can fail.
NextFail ==
    \/ Next
    \/ EmitReceiptThrows
    \/ EmitReceiptAsyncRejects
    \/ AnchorReceiptsRejects

SpecFail == Init /\ [][NextFail]_vars

\* Appends of payloads of every kind, serialisable or not.
NextEncode ==
    \/ EmitReceipt
    \/ EmitReceiptThrows
    \/ EmitReceiptLossy
    \/ EmitReceiptAsync
    \/ EmitReceiptAsyncRejects
    \/ EmitReceiptAsyncLossy
    \/ VerifyChain
    \/ VerifyChainAsync

SpecEncode == Init /\ [][NextEncode]_vars

\* Appends of every payload the ledger accepts, anchors and exports.
NextExport ==
    \/ EmitReceipt
    \/ EmitReceiptLossy
    \/ AnchorBatch
    \/ ExportLedger
    \/ EmitReceiptAsync
    \/ EmitReceiptAsyncLossy
    \/ AnchorReceipts
    \/ ExportJSONL
    \/ ExportJSONLThrows

SpecExport == Init /\ [][NextExport]_vars

\* ------------------------------------------------- the demo pages
\* demo.js drives the sync ledger, part_000 (SpaceProofDemo) the async one.
\* A run of runFullDemo() is suspended at a sleep between any two acts; an
\* act is one step. Every receipt of a run carries the same payload here.
DEMO_LAUNCH == <<"demo_launch_receipt">>
COMPONENT_VERIFICATION == <<"component_verification_receipt">>
ORBITAL_VERIFICATION == <<"orbital_verification_receipt">>
MODE_SWITCH == <<"mode_switch_receipt">>
LOCATION_PROOF == <<"location_proof_receipt">>
ARTIFACT_GENERATION == <<"artifact_generation_receipt">>

\* The receipt types each act of part_000 emits, act by act.
ActsAsync ==
    << << <<"terrestrial_verification">> >>,
       << <<"mode_switch">> >>,
       << <<"orbital_verification">> >>,
       << <<"location_proof">>, <<"artifact_generation">>, ANCHOR >>,
       << <<"demo_complete">> >> >>

Phases ==
    << "act1_suffocation", "act2_ascent", "act3_singularity",
       "act4_spaceproof", "act5_armed" >>

Done == Len(Phases) + 1

\* The runs that have not finished.
InFlight == {i \in 1..Len(runs) : runs[i].pc # Done}

\* The emits of an act made last first
RECURSIVE EmitAll_lifo(_, _, _)
EmitAll_lifo(l, types, t) ==
    IF types = <<>> THEN l
    ELSE LET ty == types[Len(types)]
             payload == IF ty = BATCH_ANCHOR THEN AnchorPayload(l, t) ELSE P_ab
         IN  EmitAll_lifo(Push(l, NewReceipt(l, ty, payload, t)),
                          SubSeq(types, 1, Len(types) - 1), t)

\* this.emitReceipt(...) for each type in turn; anchorBatch() for BATCH_ANCHOR
RECURSIVE EmitAll(_, _, _)
EmitAll(l, types, t) ==
    IF types = <<>> THEN l
    ELSE LET payload == IF Head(types) = BATCH_ANCHOR THEN AnchorPayload(l, t) ELSE P_ab
         IN  EmitAll(Push(l, NewReceipt(l, Head(types), payload, t)), Tail(types), t)

\* await ReceiptChain.emitReceipt(...) for each type in turn; the receipt of
\* anchorReceipts() for ANCHOR
RECURSIVE EmitAllAsync(_, _, _)
EmitAllAsync(rs, types, t) ==
    IF types = <<>> THEN rs
    ELSE LET payload == IF Head(types) = ANCHOR
                        THEN AnchorPayloadAsync(computeMerkleRootAsync(rs), Len(rs))
                        ELSE P_ab
         IN  EmitAllAsync(Append(rs, NewReceiptAsync(Head(types), payload, t)),
                          Tail(types), t)

\* One act of demo.js on DemoState D: the receipts it emits before it ends or
\* throws (a read of a field of null), whether it throws, and D afterwards.
Act(k, D) ==
    LET D1 == [D EXCEPT !.demoPhase = Phases[k]]
    IN  CASE k = 1 ->
               IF ~D.currentComponent
               THEN [emits |-> <<>>, throws |-> TRUE, D |-> D1]
               ELSE [emits |-> <<COMPONENT_VERIFICATION>>, throws |-> FALSE,
                     D |-> [D1 EXCEPT !.terrestrialResult = TRUE]]
          [] k = 2 ->
               [emits |-> <<MODE_SWITCH>>, throws |-> FALSE,
                D |-> [D1 EXCEPT !.mode = "orbital"]]
          [] k = 3 ->
               IF ~D.currentComponent
               THEN [emits |-> <<>>, throws |-> TRUE, D |-> D1]
               ELSE [emits |-> <<COMPONENT_VERIFICATION>>,
                     throws |-> ~D.terrestrialResult,
                     D |-> [D1 EXCEPT !.orbitalResult = TRUE]]
          [] k = 4 ->
               IF ~(D.terrestrialResult /\ D.orbitalResult)
               THEN [emits |-> <<LOCATION_PROOF>>, throws |-> TRUE, D |-> D1]
               ELSE IF ~D.currentComponent
               THEN [emits |-> <<LOCATION_PROOF, ORBITAL_VERIFICATION>>,
                     throws |-> TRUE, D |-> D1]
               ELSE [emits |-> <<LOCATION_PROOF, ORBITAL_VERIFICATION,
                                 ARTIFACT_GENERATION, BATCH_ANCHOR>>,
                     throws |-> FALSE, D |-> D1]
          [] OTHER ->
               [emits |-> <<>>, throws |-> FALSE,
                D |-> [D1 EXCEPT !.demoPhase = "complete"]]

\* DOMContentLoaded (demo.js) / init() (part_000): the listeners are set up
\* and the launch receipt is emitted.
PageLoad ==
    /\ lastOp = "init"
    /\ IF variant = "sync"
       THEN /\ ledger' = EmitAll(ledger, <<DEMO_LAUNCH>>, now)
            /\ UNCHANGED receipts
       ELSE /\ receipts' = EmitAllAsync(receipts, << <<"demo_init">> >>, now)
            /\ UNCHANGED ledger
    /\ lastOp' = "load"
    /\ ret' = NoRet
    /\ UNCHANGED <<variant, DemoState, runs, now, merkleRoots, inflight, resets, tamper>>

\* runFullDemo() up to its first await; the component database may hold no
\* component for the run (find() returns undefined)
runFullDemo ==
    /\ ret' = NoRet
    /\ IF DemoState.isRunning
       THEN UNCHANGED <<DemoState, runs, ledger, receipts, merkleRoots, resets>>
       ELSE /\ Len(runs) < MaxRuns
            /\ \E found \in BOOLEAN :
                  /\ runs' = Append(runs, [pc |-> 1, counterfeit |-> found])
                  /\ variant = "sync" =>
                        DemoState' = [DemoState EXCEPT !.isRunning = TRUE,
                                                      !.currentComponent = found]
            /\ IF variant = "sync"
               THEN UNCHANGED <<ledger, receipts, merkleRoots, resets>>
               ELSE /\ DemoState' = [DemoState EXCEPT !.isRunning = TRUE,
                                                     !.mode = "terrestrial"]
                    /\ receipts' = <<>>
                    /\ merkleRoots' = <<>>
                    /\ resets' = resets + 1
                    /\ UNCHANGED ledger
    /\ UNCHANGED <<variant, now, inflight, tamper>>

\* resetDemo() without ReceiptChain.reset()
resetDemo_keepsLedger ==
    /\ resets < MaxReset
    /\ DemoState' = Armed
    /\ ledger' = EmitAll(ledger, <<DEMO_LAUNCH>>, now)
    /\ resets' = resets + 1
    /\ ret' = NoRet
    /\ UNCHANGED <<variant, runs, now, receipts, merkleRoots, inflight, tamper>>

\* resetDemo()
resetDemo ==
    /\ resets < MaxReset
    /\ DemoState' = Armed
    /\ ledger' = EmitAll(<<>>, <<DEMO_LAUNCH>>, now)
    /\ resets' = resets + 1
    /\ ret' = NoRet
    /\ UNCHANGED <<variant, runs, now, receipts, merkleRoots, inflight, tamper>>

\* handleKeyPress(e) with e.code 'Space' (demo.js); the keydown listener of
\* part_000
KeySpace ==
    /\ lastOp # "init"
    /\ lastOp' = "keySpace"
    /\ IF variant = "sync" /\ DemoState.isRunning
       THEN /\ ret' = NoRet
            /\ UNCHANGED <<variant, DemoState, runs, now, ledger, receipts, merkleRoots,
                           inflight, resets, tamper>>
       ELSE runFullDemo

\* handleKeyPress(e) with e.code 'KeyR'
KeyR ==
    /\ variant = "sync"
    /\ lastOp # "init"
    /\ lastOp' = "keyR"
    /\ IF DemoState.isRunning
       THEN /\ ret' = NoRet
            /\ UNCHANGED <<variant, DemoState, runs, now, ledger, receipts, merkleRoots,
                           inflight, resets, tamper>>
       ELSE resetDemo

\* handleCommand('demo') or handleCommand('run')
CommandDemo ==
    /\ lastOp # "init"
    /\ lastOp' = "commandDemo"
    /\ runFullDemo

\* handleCommand('reset')
CommandReset ==
    /\ variant = "sync"
    /\ lastOp # "init"
    /\ lastOp' = "commandReset"
    /\ resetDemo

\* a click on the demo button of part_000
ButtonDemo ==
    /\ variant = "async"
    /\ lastOp # "init"
    /\ lastOp' = "buttonDemo"
    /\ runFullDemo

\* A suspended run goes through its next act; after the last act, or when an
\* act of demo.js throws into the catch of runFullDemo, the run is over and
\* isRunning is set to false. runFullDemo of part_000 has no catch: when
\* actSuffocation reads component.id of undefined the call is over there.
RunAct ==
    \E i \in InFlight :
        LET k == runs[i].pc
        IN  /\ lastOp' = "act"
            /\ ret' = NoRet
            /\ IF variant = "sync"
               THEN LET a == Act(k, DemoState)
                        over == a.throws \/ k = Len(Phases)
                    IN  /\ ledger' = EmitAll(ledger, a.emits, now)
                        /\ DemoState' = [a.D EXCEPT !.isRunning =
                                            IF over THEN FALSE ELSE a.D.isRunning]
                        /\ runs' = [runs EXCEPT ![i].pc = IF over THEN Done ELSE k + 1]
                        /\ UNCHANGED <<receipts, merkleRoots>>
               ELSE IF k = 1 /\ ~runs[i].counterfeit
               THEN /\ runs' = [runs EXCEPT ![i].pc = Done]
                    /\ UNCHANGED <<DemoState, ledger, receipts, merkleRoots>>
               ELSE /\ receipts' = EmitAllAsync(receipts, ActsAsync[k], now)
                    /\ merkleRoots' =
                          IF \E j \in 1..Len(ActsAsync[k]) : ActsAsync[k][j] = ANCHOR
                          THEN LET before == EmitAllAsync(receipts,
                                                SubSeq(ActsAsync[k], 1, Len(ActsAsync[k]) - 1), now)
                               IN  Append(merkleRoots,
                                      [ root |-> computeMerkleRootAsync(before),
                                        batch_size |-> Len(before),
                                        ts |-> Iso(now) ])
                          ELSE merkleRoots
                    /\ DemoState' = [DemoState EXCEPT
                                        !.mode = IF k = 2 THEN "orbital" ELSE @,
                                        !.threatCount = IF k = 1 THEN @ + 1 ELSE @,
                                        !.verifiedCount = IF k = 3 THEN @ + 1 ELSE @,
                                        !.isRunning = IF k = Len(Phases) THEN FALSE ELSE @]
                    /\ runs' = [runs EXCEPT ![i].pc = k + 1]
                    /\ UNCHANGED ledger
            /\ UNCHANGED <<variant, now, inflight, resets, tamper>>

NextDemo ==
    \/ PageLoad
    \/ KeySpace
    \/ KeyR
    \/ CommandDemo
    \/ CommandReset
    \/ ButtonDemo
    \/ RunAct

\* Appends of both variants, the caller changing the objects it passed.
NextAlias ==
    \/ EmitReceipt
    \/ EmitReceiptAsync
    \/ MutateCallerObject

SpecAlias == Init /\ [][NextAlias]_vars

SpecDemo == Init /\ [][NextDemo]_vars

\* ------------------------------------------ the commands of part_000
\* A command line is lower-cased, trimmed and split at spaces; args[0] is
\* the word after the command, "" when there is none (undefined, or the
\* empty string between two spaces: both are falsy).
Commands ==
    { <<"launch", "">>, <<"", "">>,
      <<"verify", "">>, <<"verify", "xyz-00001">>,
      <<"verify", "cft-00001">>, <<"verify", "gen-00001">>,
      <<"switch", "">>, <<"switch", "mars">>,
      <<"switch", "terrestrial">>, <<"switch", "orbital">>,
      <<"location", "">> }

\* The ids of generateComponentDatabase(), lower-cased.
Components == {"cft-00001", "gen-00001"}

\* What this.log(...) prints with type 'error' or 'muted' when a command is
\* turned down.
Unknown == [log |-> "Unknown command"]
UsageVerify == [log |-> "Usage: verify <component_id>"]
NotFound == [log |-> "Component not found"]
UsageSwitch == [log |-> "Usage: switch <terrestrial|orbital>"]
Already == [log |-> "Already in mode"]
NeedsOrbital == [log |-> "Location verification requires orbital mode"]

\* Room for one more suspended call within the bounds of the model.
Room == Len(inflight) < MaxInflight /\ Len(receipts) + Len(inflight) < MaxLen

\* verifyComponent(id) with the counter of genuine components bumped before
\* the component is looked up
verifyComponent_countsFirst(id) ==
    IF id = "" \/ id \notin Components
    THEN /\ ret' = IF id = "" THEN UsageVerify ELSE NotFound
         /\ DemoState' = [DemoState EXCEPT !.verifiedCount = @ + 1]
         /\ UNCHANGED inflight
    ELSE /\ Room
         /\ ret' = NoRet
         /\ \E detected \in BOOLEAN :
               DemoState' = [DemoState EXCEPT
                               !.threatCount = IF detected THEN @ + 1 ELSE @,
                               !.verifiedCount = @ + 1]
         /\ inflight' = Append(inflight,
                [ op |-> "emitReceipt",
                  type |-> <<"component_verification">>,
                  payload |-> Obj(<<E("component_id", Str(<<id>>)),
                                    E("mode", Str(<<DemoState.mode>>))>>),
                  epoch |-> resets ])

\* verifyComponent(id) up to the await of its emitReceipt; whether the
\* measured entropy flags the component depends on Math.random()
verifyComponent(id) ==
    IF id = "" \/ id \notin Components
    THEN /\ ret' = IF id = "" THEN UsageVerify ELSE NotFound
         /\ UNCHANGED <<DemoState, inflight>>
    ELSE /\ Room
         /\ ret' = NoRet
         /\ \E detected \in BOOLEAN :
               DemoState' = [DemoState EXCEPT
                               !.threatCount = IF detected THEN @ + 1 ELSE @,
                               !.verifiedCount = IF detected THEN @ ELSE @ + 1]
         /\ inflight' = Append(inflight,
                [ op |-> "emitReceipt",
                  type |-> <<"component_verification">>,
                  payload |-> Obj(<<E("component_id", Str(<<id>>)),
                                    E("mode", Str(<<DemoState.mode>>))>>),
                  epoch |-> resets ])

\* switchMode(targetMode) up to its first sleep
switchMode(targetMode) ==
    IF targetMode \notin {"terrestrial", "orbital"}
    THEN /\ ret' = UsageSwitch
         /\ UNCHANGED <<DemoState, inflight>>
    ELSE IF targetMode = DemoState.mode
    THEN /\ ret' = Already
         /\ UNCHANGED <<DemoState, inflight>>
    ELSE /\ Room
         /\ ret' = NoRet
         /\ inflight' = Append(inflight,
                [op |-> "switchMode", target |-> targetMode, epoch |-> resets])
         /\ UNCHANGED DemoState

\* verifyLocation() up to `await OrbitalSim.generateLocationProof()`
verifyLocation ==
    IF DemoState.mode # "orbital"
    THEN /\ ret' = NeedsOrbital
         /\ UNCHANGED <<DemoState, inflight>>
    ELSE /\ Room
         /\ ret' = NoRet
         /\ inflight' = Append(inflight, [op |-> "verifyLocation", epoch |-> resets])
         /\ UNCHANGED DemoState

\* handleCommand(cmd), started by the keypress listener and not awaited
handleCommand ==
    /\ variant = "async"
    /\ lastOp # "init"
    /\ \E cmd \in Commands :
          /\ lastOp' = IF cmd[1] \in {"verify", "switch", "location"}
                       THEN cmd[1] ELSE "unknown"
          /\ CASE cmd[1] = "verify" -> verifyComponent(cmd[2])
               [] cmd[1] = "switch" -> switchMode(cmd[2])
               [] cmd[1] = "location" -> verifyLocation
               [] OTHER -> ret' = Unknown /\ UNCHANGED <<DemoState, inflight>>
    /\ UNCHANGED <<variant, runs, now, ledger, receipts, merkleRoots, resets, tamper>>

\* switchMode from its last sleep on, up to the await inside emitReceipt
SwitchModeResume ==
    /\ variant = "async"
    /\ \E i \in 1..Len(inflight) :
          /\ inflight[i].op = "switchMode"
          /\ LET mode == inflight[i].target
             IN  /\ DemoState' = [DemoState EXCEPT !.mode = mode]
                 /\ inflight' = [inflight EXCEPT ![i] =
                        [ op |-> "emitReceipt",
                          type |-> <<"mode_switch">>,
                          payload |-> Obj(<<
                              E("from", Str(<<IF mode = "orbital"
                                              THEN "terrestrial" ELSE "orbital">>)),
                              E("to", Str(<<mode>>))>>),
                          epoch |-> inflight[i].epoch ]]
    /\ lastOp' = "switchMode"
    /\ ret' = NoRet
    /\ UNCHANGED <<variant, runs, now, ledger, receipts, merkleRoots, resets, tamper>>

\* verifyLocation from the proof on, up to the await inside emitReceipt
VerifyLocationResume ==
    /\ variant = "async"
    /\ \E i \in 1..Len(inflight) :
          /\ inflight[i].op = "verifyLocation"
          /\ inflight' = [inflight EXCEPT ![i] =
                 [ op |-> "emitReceipt",
                   type |-> <<"location_proof">>,
                   payload |-> Obj(<<E("node_id", Str(<<"ORBITAL-NODE-7">>))>>),
                   epoch |-> inflight[i].epoch ]]
    /\ lastOp' = "verifyLocation"
    /\ ret' = NoRet
    /\ UNCHANGED <<variant, DemoState, runs, now, ledger, receipts, merkleRoots, resets, tamper>>

\* The page of part_000 with commands typed at any moment, a command being
\* entered while earlier ones are suspended.
NextCommands ==
    \/ PageLoad
    \/ handleCommand
    \/ SwitchModeResume
    \/ VerifyLocationResume
    \/ EmitReceiptResume

SpecCommands == InitAsync /\ [][NextCommands]_vars

\* =============================================================== claims
IsPrefix(a, b) == Len(a) <= Len(b) /\ SubSeq(b, 1, Len(a)) = a

\* C1: in the sync ledger, with no tampering, every receipt after the first
\* carries the payload_hash of the receipt before it as its prev_hash.
C1_ChainLinked ==
    \A i \in 2..Len(ledger) : ledger[i].prev_hash = ledger[i - 1].payload_hash

C1_Witness ==
    /\ variant = "sync"
    /\ resets = 1
    /\ Len(ledger) = 3
    /\ ledger[2].receipt_type = BATCH_ANCHOR
    /\ ledger[1].payload_hash # ledger[2].payload_hash

\* C2: on an untampered ledger of N >= 0 receipts verifyChain() returns
\* valid = true and a receipt count equal to N.
C2_VerifyPositive ==
    (lastOp = "verifyChain" /\ tamper = <<>>) =>
        /\ ret.valid
        /\ IF variant = "sync"
           THEN "length" \in DOMAIN ret /\ ret.length = Len(ledger)
           ELSE "receipt_count" \in DOMAIN ret /\ ret.receipt_count = Len(receipts)

\* C3: right after one stored payload_hash or prev_hash of one receipt was
\* changed out of band, verifyChain() returns valid = false.
C3_VerifyNegative ==
    (lastOp = "tamper" /\ Len(tamper) = 1
        /\ tamper[1].field \in {"payload_hash", "prev_hash"}) =>
        IF variant = "sync"
        THEN ~verifyChain(ledger).valid
        ELSE ~verifyChainAsync(receipts).valid

\* C4: right after the stored payload of one receipt was changed out of band,
\* at any nesting depth, verifyChain() returns valid = false.
C4_PayloadIntegrity ==
    (lastOp = "tamper" /\ Len(tamper) = 1 /\ tamper[1].field = "payload") =>
        IF variant = "sync"
        THEN ~verifyChain(ledger).valid
        ELSE ~verifyChainAsync(receipts).valid

\* C5: the first receipt of a ledger has prev_hash = "GENESIS", whichever
\* operation appended it.
C5_GenesisSentinel ==
    Len(Stored) >= 1 =>
        "prev_hash" \in DOMAIN Stored[1] /\ Stored[1].prev_hash = GENESIS

\* C6: a step of emitReceipt makes the ledger one receipt longer, returns the
\* new last receipt and leaves every earlier receipt as and where it was.
C6_AppendFrame ==
    [][ (EmitReceipt \/ EmitReceiptAsync) =>
            /\ Len(Stored') = Len(Stored) + 1
            /\ ret' = Stored'[Len(Stored')]
            /\ SubSeq(Stored', 1, Len(Stored)) = Stored ]_vars

C6_Witness ==
    /\ lastOp = "emitReceipt"
    /\ Len(Stored) = 3
    /\ ret = Stored[3]

\* C7: every step other than a reset leaves the earlier ledger as a prefix of
\* the later one.
C7_AppendOnly ==
    [][ ~(Reset \/ Clear) => IsPrefix(Stored, Stored') ]_vars

C7_Witness ==
    /\ variant = "sync"
    /\ lastOp = "computeMerkleRoot"
    /\ Len(ledger) = 3

\* A payload with the properties of every object put in one fixed order.
RECURSIVE Canon(_)
Canon(v) ==
    IF v.t # "obj" THEN v
    ELSE LET ks == SortedKeys(v.o)
         IN  Obj([i \in 1..Len(ks) |-> E(ks[i], Canon(Get(v.o, ks[i])))])

\* C8: two stored payloads that are equal up to the order of their
\* properties, at every nesting level, have the same payload_hash.
C8_HashKeyOrder ==
    \A i, j \in 1..Len(Stored) :
        Canon(Stored[i].payload) = Canon(Stored[j].payload)
            => Stored[i].payload_hash = Stored[j].payload_hash

MerkleRootOf(l) ==
    IF variant = "sync" THEN computeMerkleRoot(l) ELSE computeMerkleRootAsync(l)

HashPair(left, right) ==
    IF variant = "sync" THEN hashChain(left, right) ELSE hashChainAsync(left, right)

RECURSIVE ReferenceFold(_)
ReferenceFold(leaves) ==
    IF Len(leaves) = 1 THEN leaves[1]
    ELSE LET padded == IF Len(leaves) % 2 = 1
                       THEN leaves \o <<leaves[Len(leaves)]>> ELSE leaves
         IN  ReferenceFold([i \in 1..(Len(padded) \div 2) |->
                               HashPair(padded[2 * i - 1], padded[2 * i])])

\* C10: the root of a ledger of two or more receipts is the reference fold
\* of the receipts' payload_hash values.
C10_MerkleFold ==
    Len(Stored) >= 2 =>
        MerkleRootOf(Stored)
            = ReferenceFold([i \in 1..Len(Stored) |-> Stored[i].payload_hash])

\* C11: computeMerkleRoot() on an empty ledger returns the hash of the
\* string "empty", a root and no error, before and after a reset.
C11_EmptyRoot ==
    (lastOp = "computeMerkleRoot" /\ Len(Stored) = 0) =>
        /\ DOMAIN ret = {"root"}
        /\ ret.root = Digest(<<"empty">>)

C11_Witness ==
    /\ lastOp = "computeMerkleRoot"
    /\ Len(Stored) = 0
    /\ resets = 1
    /\ ret.root = Digest(<<"empty">>)

\* The type string the ledger gives its anchor receipts.
AnchorType == IF variant = "sync" THEN BATCH_ANCHOR ELSE ANCHOR

\* What an anchor step appends: one receipt of the anchor type whose payload
\* carries the root and the size of the ledger as it was before the step.
AnchorAppends ==
    /\ Len(Stored') = Len(Stored) + 1
    /\ SubSeq(Stored', 1, Len(Stored)) = Stored
    /\ LET a == Stored'[Len(Stored')]
       IN  /\ a.receipt_type = AnchorType
           /\ Get(a.payload.o, "merkle_root") = Str(MerkleRootOf(Stored))
           /\ Get(a.payload.o, "batch_size") = Num(<<ToString(Len(Stored))>>)

\* C12: an anchor call made with nothing else in flight appends exactly one
\* anchor receipt with the root and the size of the ledger before the call;
\* on an empty ledger the root is the empty-batch root, the size 0 and the
\* receipt's prev_hash "GENESIS".
C12_AnchorReceipt ==
    [][ (AnchorBatch \/ AnchorReceipts) =>
            /\ AnchorAppends
            /\ Len(Stored) = 0 =>
                  LET a == Stored'[1]
                  IN  /\ Get(a.payload.o, "merkle_root") = Str(Digest(<<"empty">>))
                      /\ Get(a.payload.o, "batch_size") = Num(<<"0">>)
                      /\ "prev_hash" \in DOMAIN a
                      /\ a.prev_hash = GENESIS ]_vars

\* The places where two anchor receipts follow one another.
AnchorPairs ==
    {i \in 1..(Len(Stored) - 1) :
        Stored[i].receipt_type = AnchorType /\ Stored[i + 1].receipt_type = AnchorType}

RootOf(r) == Get(r.payload.o, "merkle_root")

\* C13 as stated: two anchor receipts appended in succession carry equal
\* roots and distinct payload_hash values.
C13_SameRootTwice ==
    \A i \in AnchorPairs :
        /\ RootOf(Stored[i]) = RootOf(Stored[i + 1])
        /\ Stored[i].payload_hash # Stored[i + 1].payload_hash

\* C13 as amended: two anchor receipts appended in succession sit at
\* distinct positions and carry distinct payload_hash values and distinct
\* roots, the second root covering the first anchor receipt as well.
C13_AnchorsDistinct ==
    \A i \in AnchorPairs :
        /\ RootOf(Stored[i]) = Str(MerkleRootOf(SubSeq(Stored, 1, i - 1)))
        /\ RootOf(Stored[i + 1]) = Str(MerkleRootOf(SubSeq(Stored, 1, i)))
        /\ RootOf(Stored[i]) # RootOf(Stored[i + 1])
        /\ Stored[i].payload_hash # Stored[i + 1].payload_hash

C13_Witness ==
    /\ Len(Stored) = 3
    /\ AnchorPairs = {2}
    /\ Stored[2].ts = Stored[3].ts
    /\ RootOf(Stored[2]) # RootOf(Stored[3])

\* The anchor receipts of the ledger, in ledger order.
AnchorReceiptsOf(l) == SelectSeq(l, LAMBDA r : r.receipt_type = AnchorType)

\* C14: the anchor history holds one entry per anchor receipt of the ledger,
\* in the same order, with the root and batch size of that receipt's payload.
C14_AnchorHistory ==
    LET as == AnchorReceiptsOf(Stored)
    IN  /\ Len(merkleRoots) = Len(as)
        /\ \A k \in 1..Len(as) :
              /\ Str(merkleRoots[k].root) = RootOf(as[k])
              /\ Num(<<ToString(merkleRoots[k].batch_size)>>)
                    = Get(as[k].payload.o, "batch_size")

\* The receipt types present in a ledger and how many receipts have each.
TypesOf(l) == {l[i].receipt_type : i \in 1..Len(l)}
CountOf(l, ty) == Cardinality({i \in 1..Len(l) : l[i].receipt_type = ty})

\* C15: getStats() reports the ledger length as total_receipts and, for every
\* receipt type, whatever string it is, the number of receipts of that type.
C15_StatsAccurate ==
    lastOp = "getStats" =>
        /\ ret.total_receipts = Len(Stored)
        /\ DOMAIN ret.by_type = TypesOf(Stored)
        /\ \A ty \in TypesOf(Stored) : ret.by_type[ty] = CountVal(CountOf(Stored, ty))

VerifyOf(l) == IF variant = "sync" THEN verifyChain(l) ELSE verifyChainAsync(l)

\* C16: getStats() reports whether the chain verifies, the Merkle root of the
\* whole ledger and the timestamp of the last receipt, on any ledger, the
\* empty and the tampered one included.
C16_StatsFields ==
    lastOp = "getStats" =>
        /\ "chain_valid" \in DOMAIN ret
        /\ ret.chain_valid = VerifyOf(Stored).valid
        /\ "merkle_root" \in DOMAIN ret
        /\ ret.merkle_root = MerkleRootOf(Stored)
        /\ "last_receipt" \in DOMAIN ret
        /\ Len(Stored) > 0 => ret.last_receipt = Stored[Len(Stored)].ts

StatsOf(l) == IF variant = "sync" THEN getStats(l) ELSE getChainStats(l, merkleRoots)

\* C17: right after a reset the ledger and the anchor history are empty and
\* getStats() counts 0 receipts; the first receipt appended after a reset has
\* prev_hash "GENESIS".
C17_ResetComplete ==
    /\ lastOp = "reset" =>
          /\ Stored = <<>>
          /\ merkleRoots = <<>>
          /\ StatsOf(Stored).total_receipts = 0
    /\ (resets > 0 /\ Len(Stored) >= 1) =>
          /\ "prev_hash" \in DOMAIN Stored[1]
          /\ Stored[1].prev_hash = GENESIS

Empty(l) == Len(l) = 0

\* C18: the ledger starts Empty; only an append, made directly or by an
\* anchor, takes it from Empty to Populated; only a reset takes it from
\* Populated to Empty; a reset always leaves it Empty; verifyChain, getStats,
\* computeMerkleRoot and exportLedger leave the ledger as it is.
C18_StateMachine ==
    /\ Empty(Stored)
    /\ [][ /\ (Empty(Stored) /\ ~Empty(Stored')) =>
                (EmitReceipt \/ AnchorBatch \/ EmitReceiptAsync \/ AnchorReceipts)
           /\ (~Empty(Stored) /\ Empty(Stored')) => (Reset \/ Clear)
           /\ (Reset \/ Clear) => Empty(Stored')
           /\ ( VerifyChain \/ GetStats \/ ComputeMerkleRoot \/ ExportLedger
                \/ VerifyChainAsync \/ GetChainStats \/ ComputeMerkleRootAsync
                \/ ExportJSONL ) => Stored' = Stored ]_vars

C18_Witness ==
    /\ resets = 1
    /\ lastOp = "anchorBatch"
    /\ Len(ledger) = 1

\* The ledger of the scenario: receipts appended to an empty ledger, then one
\* anchor, which is the last receipt and the only anchor receipt.
AnchoredOnce ==
    /\ Len(Stored) >= 1
    /\ {i \in 1..Len(Stored) : Stored[i].receipt_type = AnchorType} = {Len(Stored)}

\* The receipt count verifyChain() reports.
CountReported(v) ==
    IF variant = "sync" THEN v.length ELSE v.receipt_count

\* C19: with k receipts appended and then one anchor, verifyChain() returns
\* valid with a count of k + 1 and getStats().by_type.anchor is 1.
C19_EndToEnd ==
    AnchoredOnce =>
        /\ lastOp = "verifyChain" =>
              ret.valid /\ CountReported(ret) = Len(Stored)
        /\ lastOp = "getStats" =>
              /\ ANCHOR \in DOMAIN ret.by_type
              /\ ret.by_type[ANCHOR] = CountVal(1)

\* C20: an append or an anchor whose hashing fails leaves the ledger and
\* the anchor history exactly as they were before the call.
C20_FailFast ==
    [][ (EmitReceiptThrows \/ EmitReceiptAsyncRejects \/ AnchorReceiptsRejects) =>
            UNCHANGED <<ledger, receipts, merkleRoots>> ]_vars

\* A value that has no canonical serialization: a non-finite number or a
\* cyclic reference, at any depth.
RECURSIVE Unserializable(_)
Unserializable(v) ==
    \/ v.t \in {"nan", "cyc"}
    \/ v.t = "obj" /\ \E i \in 1..Len(v.o) : Unserializable(v.o[i].v)

\* C21: hashing a payload that holds a non-finite number or a cycle fails and
\* the append adds nothing, so no stored receipt has such a payload.
C21_EncodingError ==
    \A i \in 1..Len(Stored) : ~Unserializable(Stored[i].payload)

\* A ledger whose chain is broken: in the sync ledger some receipt's
\* prev_hash is not the payload_hash of the receipt before it, in the async
\* one some receipt's payload_hash is not the hash of its payload.
ChainBroken ==
    IF variant = "sync"
    THEN \E i \in 2..Len(ledger) : ledger[i].prev_hash # ledger[i - 1].payload_hash
    ELSE \E i \in 1..Len(receipts) :
            dualHashAsync(receipts[i].payload) # receipts[i].payload_hash

BrokenAt ==
    {j \in 2..Len(ledger) : ledger[j].prev_hash # ledger[j - 1].payload_hash}

\* C23: with one or more links broken, verifyChain() reports the smallest
\* broken index (the first receipt has index 0), the payload_hash of the
\* receipt before it as expected and its prev_hash as found.
C23_FirstBreak ==
    (variant = "sync" /\ lastOp = "verifyChain" /\ BrokenAt # {}) =>
        LET j == CHOOSE x \in BrokenAt : \A y \in BrokenAt : x <= y
        IN  /\ ret.valid = FALSE
            /\ ret.index = j - 1
            /\ ret.expected = ledger[j - 1].payload_hash
            /\ ret.found = ledger[j].prev_hash

C23_Witness ==
    /\ variant = "sync"
    /\ lastOp = "verifyChain"
    /\ BrokenAt = {2, 3}
    /\ ret.index = 1

\* The operations that only read the chain.
Readers ==
    \/ ComputeMerkleRoot
    \/ ComputeMerkleRootAsync
    \/ VerifyChain
    \/ VerifyChainAsync
    \/ GetStats
    \/ GetChainStats
    \/ ExportLedger
    \/ ExportJSONL

\* C24: computeMerkleRoot, verifyChain, getStats and exportLedger leave the
\* receipt sequence and the anchor history as they were before the call.
C24_ReadersReadOnly ==
    [][ Readers => UNCHANGED <<ledger, receipts, merkleRoots>> ]_vars

C24_Witness ==
    /\ variant = "async"
    /\ lastOp = "getStats"
    /\ merkleRoots # <<>>
    /\ Len(receipts) >= 2
    /\ ret.anchor_count = Len(merkleRoots)

\* C25: every receipt in the ledger, whenever a reader may look at it, has
\* its payload_hash, its chain link prev_hash and its timestamp.
C25_FullyConstructed ==
    \A i \in 1..Len(Stored) :
        /\ {"payload_hash", "prev_hash", "ts"} \subseteq DOMAIN Stored[i]
        /\ Stored[i].payload_hash = dualHashAsync(Stored[i].payload)

\* The suspended plain emitReceipt calls, in the order they were invoked.
Pending == SelectSeq(inflight, LAMBDA c : c.op = "emitReceipt")

\* C26: of the emitReceipt calls in flight, the one invoked first is the
\* one whose receipt is appended first.
C26_InvocationOrder ==
    [][ (EmitReceiptResume /\ lastOp' = "emitReceipt") =>
            /\ Pending' = Tail(Pending)
            /\ ret'.receipt_type = Pending[1].type
            /\ ret'.payload = Pending[1].payload ]_vars

\* The order of two timestamps as toISOString() writes them.
TsLeq(a, b) ==
    \E x \in 0..(MaxClock + 1) : \E y \in x..(MaxClock + 1) :
        a = Iso(x) /\ b = Iso(y)

\* C27: along the ledger the timestamps never decrease.
C27_TimestampsMonotone ==
    \A i \in 2..Len(Stored) : TsLeq(Stored[i - 1].ts, Stored[i].ts)

C27_Witness ==
    /\ variant = "async"
    /\ Len(receipts) = 2
    /\ receipts[1].ts = Iso(0)
    /\ receipts[2].ts = Iso(1)
    /\ receipts[2].receipt_type = ANCHOR
    /\ inflight # <<>>

\* ---- JSON.parse, for the reader of an exported ledger
Null == [t |-> "null", s |-> <<>>, o |-> <<>>]

\* A string literal from after its opening quote on: up to the closing
\* quote, a digest being one piece whatever it is the digest of.
Depth(toks, j) ==
    Cardinality({k \in 1..(j - 1) : toks[k] \in {"H[", "["}})
    - Cardinality({k \in 1..(j - 1) : toks[k] = "]"})

ScanStr(toks) ==
    LET n == CHOOSE j \in 1..Len(toks) :
                /\ toks[j] = "\"" /\ Depth(toks, j) = 0
                /\ \A k \in 1..(j - 1) : ~(toks[k] = "\"" /\ Depth(toks, k) = 0)
    IN  [v |-> Str(SubSeq(toks, 1, n - 1)), rest |-> SubSeq(toks, n + 1, Len(toks))]

RECURSIVE ParseValue(_)
RECURSIVE ParseMembers(_, _)
ParseValue(toks) ==
    LET h == Head(toks)
    IN  CASE h = "\"" -> ScanStr(Tail(toks))
          [] h = "null" -> [v |-> Null, rest |-> Tail(toks)]
          [] h = "[" ->
                LET n == CHOOSE j \in 1..Len(toks) :
                            toks[j] = "]" /\ \A k \in 1..(j - 1) : toks[k] # "]"
                IN  [v |-> Arr(SubSeq(toks, 2, n - 1)),
                     rest |-> SubSeq(toks, n + 1, Len(toks))]
          [] h = "{" -> ParseMembers(Tail(toks), <<>>)
          [] OTHER -> [v |-> Num(<<h>>), rest |-> Tail(toks)]

ParseMembers(toks, acc) ==
    IF Head(toks) = "}"
    THEN [v |-> Obj(acc), rest |-> Tail(toks)]
    ELSE LET t == IF Head(toks) = "," THEN Tail(toks) ELSE toks
             pv == ParseValue(SubSeq(t, 5, Len(t)))
         IN  ParseMembers(pv.rest, Append(acc, E(t[2], pv.v)))

\* text.split('\n')
LineEnds(text) == {i \in 1..Len(text) : text[i] = "\n"}

SplitLines(text) ==
    IF text = <<>> THEN <<>>
    ELSE LET nl == LineEnds(text)
             cut == [k \in 0..(Cardinality(nl) + 1) |->
                        IF k = 0 THEN 0
                        ELSE IF k = Cardinality(nl) + 1 THEN Len(text) + 1
                        ELSE CHOOSE i \in nl : Cardinality({j \in nl : j < i}) = k - 1]
         IN  [k \in 1..(Cardinality(nl) + 1) |->
                SubSeq(text, cut[k - 1] + 1, cut[k] - 1)]

\* The receipt a parsed line stands for.
ReceiptOf(v) ==
    [ k \in {v.o[i].k : i \in 1..Len(v.o)} |->
        IF k = "payload" THEN Get(v.o, k) ELSE Get(v.o, k).s ]

ParsedLedger(text) ==
    LET lines == SplitLines(text)
    IN  [k \in 1..Len(lines) |-> ReceiptOf(ParseValue(lines[k]).v)]

\* C28: exportLedger() returns one line per receipt, the k-th line being the
\* serialization of the k-th receipt; parsing the lines gives the receipts
\* of the ledger, on which verifyChain gives what it gives on the ledger.
C28_ExportRoundTrip ==
    lastOp = "exportLedger" =>
        /\ "jsonl" \in DOMAIN ret
        /\ LET lines == SplitLines(ret.jsonl)
               back == ParsedLedger(ret.jsonl)
           IN  /\ Len(lines) = Len(Stored)
               /\ \A k \in 1..Len(lines) :
                     lines[k] = stringify(IF variant = "sync"
                                          THEN ReceiptValue(Stored[k])
                                          ELSE ReceiptValueAsync(Stored[k]))
               /\ back = Stored
               /\ IF variant = "sync"
                  THEN verifyChain(back) = verifyChain(ledger)
                  ELSE verifyChainAsync(back) = verifyChainAsync(receipts)

\* C29: the ledger is reset or cleared only when no run of the full demo is
\* between its start and its end.
C29_ResetBetweenRuns ==
    [][ resets' # resets => InFlight = {} ]_vars

\* A trigger of the full demo: the SPACE key, the demo button, the demo / run
\* command.
Trigger == KeySpace \/ CommandDemo \/ ButtonDemo

\* C30: at most one run of the full demo is between its start and its end,
\* and a trigger that arrives meanwhile starts no run and appends no receipt.
C30_OneRunAtATime ==
    /\ [](Cardinality(InFlight) <= 1)
    /\ [][ (Trigger /\ InFlight # {}) =>
              /\ runs' = runs
              /\ UNCHANGED <<ledger, receipts, merkleRoots>> ]_vars

\* C31: when no run of the full demo is between its start and its end,
\* isRunning is false, so that the next trigger starts a run.
C31_RunsEndIdle ==
    InFlight = {} => ~DemoState.isRunning

\* The kind of receipt a receipt type stands for in the description of the
\* acts.
Kind(ty) ==
    CASE ty \in {COMPONENT_VERIFICATION, ORBITAL_VERIFICATION,
                 <<"terrestrial_verification">>, <<"orbital_verification">>}
            -> "verification"
      [] ty \in {MODE_SWITCH, <<"mode_switch">>} -> "mode_switch"
      [] ty \in {LOCATION_PROOF, <<"location_proof">>} -> "location_proof"
      [] ty \in {ARTIFACT_GENERATION, <<"artifact_generation">>} -> "artifact_generation"
      [] ty \in {BATCH_ANCHOR, ANCHOR} -> "anchor"
      [] OTHER -> "other"

KindsOf(l) == [i \in 1..Len(l) |-> Kind(l[i].receipt_type)]

\* One run of the full demo, started on the freshly loaded page, with no
\* reset and no other run, has gone through acts 1 to 4.
AfterAct4 ==
    /\ Len(runs) = 1
    /\ runs[1].pc = Len(Phases)
    /\ resets = IF variant = "sync" THEN 0 ELSE 1

\* The receipts of that run: the sync ledger also holds the launch receipt.
RunReceipts == IF variant = "sync" THEN Tail(ledger) ELSE receipts

\* The anchor receipt at position n covers exactly the receipts before it.
Covers(n) ==
    /\ RootOf(Stored[n]) = Str(MerkleRootOf(SubSeq(Stored, 1, n - 1)))
    /\ Get(Stored[n].payload.o, "batch_size") = Num(<<ToString(n - 1)>>)

\* C32 as stated: the receipts of the run after act 4 are a verification, a
\* mode_switch, a verification, a location_proof, an artifact_generation
\* and the anchor receipt.
C32_SixReceipts ==
    AfterAct4 =>
        KindsOf(RunReceipts) =
            << "verification", "mode_switch", "verification",
               "location_proof", "artifact_generation", "anchor" >>

\* C32: after act 4 of an uninterrupted run the run's receipts are, in this
\* order, a verification, a mode_switch, a verification, a location_proof,
\* on the demo.js page one more verification, an artifact_generation and
\* the anchor receipt, which covers every receipt in the ledger before it.
C32_ActOrder ==
    AfterAct4 =>
        /\ KindsOf(RunReceipts) =
              IF variant = "sync"
              THEN << "verification", "mode_switch", "verification",
                      "location_proof", "verification", "artifact_generation",
                      "anchor" >>
              ELSE << "verification", "mode_switch", "verification",
                      "location_proof", "artifact_generation", "anchor" >>
        /\ Covers(Len(Stored))
        /\ DemoState.demoPhase = IF variant = "sync" THEN Phases[Len(Phases) - 1] ELSE "idle"

C32_Witness ==
    /\ AfterAct4
    /\ variant = "sync"
    /\ Len(ledger) = 8
    /\ ledger[8].receipt_type = BATCH_ANCHOR
    /\ ledger[6].receipt_type = ORBITAL_VERIFICATION

\* C33: on the async variant, every anchor receipt and every entry of the
\* anchor history carries a batch_size equal to the number of receipts its
\* merkle_root was computed over, and these are exactly the receipts that
\* precede the anchor receipt in the ledger.
C33_AnchorBatch ==
    variant = "async" =>
        /\ \A n \in 1..Len(receipts) :
               receipts[n].receipt_type = ANCHOR => Covers(n)
        /\ \A m \in 1..Len(merkleRoots) :
               \E k \in 0..Len(receipts) :
                   /\ merkleRoots[m].batch_size = k
                   /\ merkleRoots[m].root = computeMerkleRootAsync(SubSeq(receipts, 1, k))

\* C34: on the async variant, a receipt enters the ledger only from an
\* emitReceipt call that started after the last clear(): a call that was in
\* flight when clear() ran adds nothing afterwards.
C34_ClearDropsInFlight ==
    [][ Len(receipts') > Len(receipts) =>
            \E i \in 1..Len(inflight) :
                /\ inflight' = RemoveAt(inflight, i)
                /\ inflight[i].epoch = resets ]_vars

\* C35: every mode_switch receipt the switch command builds records a real
\* transition: `from` is the mode immediately before the switch, `to` the
\* mode after it, and the two differ.
C35_RealTransition ==
    [][ lastOp' = "switchMode" =>
            \A i \in 1..Len(inflight) :
                (inflight[i].op = "switchMode" /\ inflight'[i].op = "emitReceipt") =>
                    /\ Get(inflight'[i].payload.o, "from") = Str(<<DemoState.mode>>)
                    /\ Get(inflight'[i].payload.o, "to") = Str(<<DemoState'.mode>>)
                    /\ DemoState.mode # DemoState'.mode ]_vars

Rejections == {Unknown, UsageVerify, NotFound, UsageSwitch, Already, NeedsOrbital}

\* C36: a command that is turned down (unknown command, verify with a
\* missing or unknown id, switch with a missing, invalid or already-current
\* mode, location in terrestrial mode) appends no receipt, starts no append,
\* and changes neither the mode nor the threat and verified counters.
C36_RejectedNoEffect ==
    [][ ret' \in Rejections =>
            /\ receipts' = receipts
            /\ inflight' = inflight
            /\ merkleRoots' = merkleRoots
            /\ DemoState'.mode = DemoState.mode
            /\ DemoState'.threatCount = DemoState.threatCount
            /\ DemoState'.verifiedCount = DemoState.verifiedCount ]_vars

\* 'switch orbital' is turned down after a switch to orbital and a
\* verification went through.
C36_Witness ==
    /\ ret = Already
    /\ lastOp = "switch"
    /\ DemoState.mode = "orbital"
    /\ DemoState.threatCount + DemoState.verifiedCount = 1
    /\ Len(receipts) = 3

\* C37: when resetDemo() has run (reset command, or R key while no run is
\* marked as running), whatever the state before, the demo state has its
\* initial values and the ledger holds exactly one receipt, the demo-launch
\* receipt, with prev_hash "GENESIS".
C37_ResetToArmed ==
    [][ (variant = "sync" /\ resets' # resets) =>
            /\ DemoState' = Armed
            /\ Len(ledger') = 1
            /\ ledger'[1].receipt_type = DEMO_LAUNCH
            /\ ledger'[1].prev_hash = GENESIS ]_vars

\* The reset command was given while a run was between act 3 and act 4.
C37_Witness ==
    /\ variant = "sync"
    /\ lastOp = "commandReset"
    /\ resets = 1
    /\ \E i \in InFlight : runs[i].pc = 4
    /\ DemoState = Armed
    /\ Len(ledger) = 1

HashOf(payload) ==
    IF variant = "sync" THEN dualHash(payload) ELSE dualHashAsync(payload)

\* C38: the stored payload is fixed at append time: an assignment the
\* caller makes afterwards to the object it passed, or to an object nested
\* in it, leaves every stored payload as it was, and every stored payload
\* hashes to its stored payload_hash.
C38_PayloadFixed ==
    /\ [][ lastOp' = "mutate" =>
              \A i \in 1..Len(Stored) : Stored'[i].payload = Stored[i].payload ]_vars
    /\ [](\A i \in 1..Len(Stored) :
              HashOf(Stored[i].payload) = Stored[i].payload_hash)

====
